---------------------------- MODULE Spec2Model ----------------------------
(***************************************************************************)
(* Cross-Chain Epoch Oracle subgraph: the invocation driver                *)
(* handleCrossChainEpochOracle, its message executors, the store helpers   *)
(* and the varint / preamble codec.                                        *)
(*                                                                         *)
(* Representation.                                                         *)
(*   Bytes      a sequence of 0..255; index k of the code is k+1 here.     *)
(*   string     the sequence of its character codes ("eth" is              *)
(*              <<101,116,104>>, "12" is <<49,50>>).                       *)
(*   T | null   None (the empty tuple) or Some(v) (the one-tuple <<v>>).   *)
(*   a joined id [a, b].join("-") is the tuple <<a, b>>.                   *)
(*   EntityStore  a record of tables, one per entity kind; a table is a    *)
(*              function from the ids present to the entity's fields.      *)
(***************************************************************************)
EXTENDS Integers, Sequences, FiniteSets, TLC

(***************************************************************************)
(* Bounds of the model.                                                    *)
(***************************************************************************)
MaxInvocations == 3

(***************************************************************************)
(* Program constants (constants.ts).                                       *)
(***************************************************************************)
PREAMBLE_BIT_LENGTH == 64
TAG_BIT_LENGTH == 4
MERKLE_ROOT_LENGTH == 32

None == <<>>
Some(v) == <<v>>

Min(a, b) == IF a < b THEN a ELSE b

\* Body applied to the value of an expression that is evaluated once.
With(value, Body(_)) == CHOOSE out \in {Body(x) : x \in {value}} : TRUE

\* Uint8Array.slice(begin, end) for begin, end >= 0: the end is clamped to the
\* length and an empty array comes back when begin is not before it.
Slice(bytes, begin, end) == SubSeq(bytes, begin + 1, Min(end, Len(bytes)))

SliceFrom(bytes, begin) == Slice(bytes, begin, Len(bytes))

\* BigInt.toString / i32.toString of a number >= 0: its decimal digits.
RECURSIVE DecStr(_)
DecStr(n) == IF n < 10 THEN <<48 + n>> ELSE DecStr(n \div 10) \o <<48 + (n % 10)>>

\* BigInt.fromString of a string of decimal digits.
RECURSIVE ParseDec(_)
ParseDec(s) ==
  IF Len(s) = 0 THEN 0
  ELSE 10 * ParseDec(SubSeq(s, 1, Len(s) - 1)) + (s[Len(s)] - 48)

(***************************************************************************)
(* Varint codec.                                                           *)
(***************************************************************************)
\* ctz of a u8 held in an i32: 32 for 0.
RECURSIVE ctz(_)
ctz(x) == IF x = 0 THEN 32 ELSE IF x % 2 = 1 THEN 0 ELSE 1 + ctz(x \div 2)

RECURSIVE Pow2(_)
Pow2(n) == IF n = 0 THEN 1 ELSE 2 * Pow2(n - 1)

\* The decoded u64 and the bytes read, [0, 0] on error.  trap: the read of
\* bytes[offset] is out of range, a RangeError that aborts the handler.  The
\* bit fields that the code ORs together do not overlap, so they are added.
decodePrefixVarIntU64(bytes, offset) ==
  IF offset >= Len(bytes)
  THEN [trap |-> TRUE, value |-> 0, consumed |-> 0]
  ELSE
    LET first == bytes[offset + 1]
        shift == Min(ctz(first), 8)
        B(j) == bytes[offset + j + 1]
    IN IF offset + shift >= Len(bytes)
       THEN [trap |-> FALSE, value |-> 0, consumed |-> 0]
       ELSE
         [trap |-> FALSE,
          consumed |-> shift + 1,
          value |->
            CASE shift = 0 -> first \div 2
              [] shift = 1 -> (first \div 4) + B(1) * Pow2(6)
              [] shift = 2 -> (first \div 8) + B(1) * Pow2(5) + B(2) * Pow2(13)
              [] shift = 3 -> (first \div 16) + B(1) * Pow2(4) + B(2) * Pow2(12)
                              + B(3) * Pow2(20)
              [] shift = 4 -> (first \div 32) + B(1) * Pow2(3) + B(2) * Pow2(11)
                              + B(3) * Pow2(19) + B(4) * Pow2(27)
              [] shift = 5 -> (first \div 64) + B(1) * Pow2(2) + B(2) * Pow2(10)
                              + B(3) * Pow2(18) + B(4) * Pow2(26)
                              + B(5) * Pow2(34)
              [] shift = 6 -> (first \div 128) + B(1) * Pow2(1) + B(2) * Pow2(9)
                              + B(3) * Pow2(17) + B(4) * Pow2(25)
                              + B(5) * Pow2(33) + B(6) * Pow2(41)
              [] shift = 7 -> B(1) + B(2) * Pow2(8) + B(3) * Pow2(16)
                              + B(4) * Pow2(24) + B(5) * Pow2(32)
                              + B(6) * Pow2(40) + B(7) * Pow2(48)
              [] shift = 8 -> B(1) + B(2) * Pow2(8) + B(3) * Pow2(16)
                              + B(4) * Pow2(24) + B(5) * Pow2(32)
                              + B(6) * Pow2(40) + B(7) * Pow2(48)
                              + B(8) * Pow2(56)]

\* (input >> 1) ^ -(input & 1): XOR with all ones is the complement, -x - 1.
zigZagDecode(input) ==
  IF input % 2 = 1 THEN -(input \div 2) - 1 ELSE input \div 2

decodePrefixVarIntI64(bytes, offset) ==
  LET zigZagDecodeInput == decodePrefixVarIntU64(bytes, offset)
  IN [trap |-> zigZagDecodeInput.trap,
      value |-> IF zigZagDecodeInput.consumed # 0
                THEN zigZagDecode(zigZagDecodeInput.value)
                ELSE 0,
      consumed |-> zigZagDecodeInput.consumed]

\* bytes.slice(offset, offset + stringLength).toString()
getStringFromBytes(bytes, offset, stringLength) ==
  Slice(bytes, offset, offset + stringLength)

(***************************************************************************)
(* The codec on whole 64-bit words.  A u64 or i64 is the sequence of its   *)
(* 64 bits, lowest first, so that every length class of the varint and     *)
(* every sign is covered; the operators above give the same results as     *)
(* numbers.                                                                *)
(***************************************************************************)
WORD_BITS == 64

\* x as u64, for a byte or a part of one.
U64(x) == [k \in 1..WORD_BITS |-> IF k <= 8 THEN (x \div Pow2(k - 1)) % 2 ELSE 0]

Zero64 == [k \in 1..WORD_BITS |-> 0]

\* w << n and w >> n (logical).
Shl(w, n) == [k \in 1..WORD_BITS |-> IF k > n THEN w[k - n] ELSE 0]

Shr(w, n) == [k \in 1..WORD_BITS |-> IF k + n <= WORD_BITS THEN w[k + n] ELSE 0]

Or(a, b) == [k \in 1..WORD_BITS |-> IF a[k] = 1 \/ b[k] = 1 THEN 1 ELSE 0]

And(a, b) == [k \in 1..WORD_BITS |-> IF a[k] = 1 /\ b[k] = 1 THEN 1 ELSE 0]

Xor(a, b) == [k \in 1..WORD_BITS |-> IF a[k] # b[k] THEN 1 ELSE 0]

Not(w) == [k \in 1..WORD_BITS |-> 1 - w[k]]

\* -w in two's complement: the bits above the lowest 1 are inverted.
Neg(w) ==
  [k \in 1..WORD_BITS |->
     IF \E j \in 1..(k - 1) : w[j] = 1 THEN 1 - w[k] ELSE w[k]]

RECURSIVE OrAll(_)
OrAll(words) ==
  IF Len(words) = 0 THEN Zero64 ELSE Or(Head(words), OrAll(Tail(words)))

\* first >> (shift + 1) as u64 where the first byte is kept with its prefix:
\* only the bit that ends the prefix is shifted out.
FirstByteBits_KeepsPrefix(first, shift) == U64(first \div Pow2(shift))

\* (first >> (shift + 1)) as u64: the length prefix is shifted out.
FirstByteBits(first, shift) == U64(first \div Pow2(shift + 1))

\* decodePrefixVarIntU64 with the result kept as a word.
decodePrefixVarIntU64Bits(bytes, offset) ==
  IF offset >= Len(bytes)
  THEN [trap |-> TRUE, word |-> Zero64, consumed |-> 0]
  ELSE
    LET first == bytes[offset + 1]
        shift == Min(ctz(first), 8)
        B(j) == U64(bytes[offset + j + 1])
    IN IF offset + shift >= Len(bytes)
       THEN [trap |-> FALSE, word |-> Zero64, consumed |-> 0]
       ELSE
         [trap |-> FALSE,
          consumed |-> shift + 1,
          word |->
            CASE shift = 0 -> FirstByteBits(first, 0)
              [] shift = 1 -> OrAll(<<FirstByteBits(first, 1), Shl(B(1), 6)>>)
              [] shift = 2 -> OrAll(<<FirstByteBits(first, 2), Shl(B(1), 5),
                                      Shl(B(2), 13)>>)
              [] shift = 3 -> OrAll(<<FirstByteBits(first, 3), Shl(B(1), 4),
                                      Shl(B(2), 12), Shl(B(3), 20)>>)
              [] shift = 4 -> OrAll(<<FirstByteBits(first, 4), Shl(B(1), 3),
                                      Shl(B(2), 11), Shl(B(3), 19),
                                      Shl(B(4), 27)>>)
              [] shift = 5 -> OrAll(<<FirstByteBits(first, 5), Shl(B(1), 2),
                                      Shl(B(2), 10), Shl(B(3), 18),
                                      Shl(B(4), 26), Shl(B(5), 34)>>)
              [] shift = 6 -> OrAll(<<FirstByteBits(first, 6), Shl(B(1), 1),
                                      Shl(B(2), 9), Shl(B(3), 17),
                                      Shl(B(4), 25), Shl(B(5), 33),
                                      Shl(B(6), 41)>>)
              [] shift = 7 -> OrAll(<<B(1), Shl(B(2), 8), Shl(B(3), 16),
                                      Shl(B(4), 24), Shl(B(5), 32),
                                      Shl(B(6), 40), Shl(B(7), 48)>>)
              [] shift = 8 -> OrAll(<<B(1), Shl(B(2), 8), Shl(B(3), 16),
                                      Shl(B(4), 24), Shl(B(5), 32),
                                      Shl(B(6), 40), Shl(B(7), 48),
                                      Shl(B(8), 56)>>)]

\* zigZagDecode turning every odd input into the negated half.
zigZagDecodeBits_NoComplement(input) ==
  IF input[1] = 1 THEN Neg(Shr(input, 1)) ELSE Shr(input, 1)

\* ((input >> 1) ^ -(input & 1)) as i64
zigZagDecodeBits(input) == Xor(Shr(input, 1), Neg(And(input, U64(1))))

decodePrefixVarIntI64Bits(bytes, offset) ==
  LET zigZagDecodeInput == decodePrefixVarIntU64Bits(bytes, offset)
  IN [trap |-> zigZagDecodeInput.trap,
      word |-> IF zigZagDecodeInput.consumed # 0
               THEN zigZagDecodeBits(zigZagDecodeInput.word)
               ELSE Zero64,
      consumed |-> zigZagDecodeInput.consumed]

(***************************************************************************)
(* Preamble parser.                                                        *)
(***************************************************************************)
\* BigInt.fromUnsignedBytes(preamble).toI32() keeps the four low bytes of the
\* little-endian word, `>>` on an i32 takes its shift count modulo 32, and
\* the mask keeps four bits: the result is one nibble of the low four bytes.
getTag(preamble, index) ==
  LET sh == (index * TAG_BIT_LENGTH) % 32
      k == sh \div 8
      b == IF k < Len(preamble) THEN preamble[k + 1] ELSE 0
  IN IF sh % 8 = 0 THEN b % Pow2(TAG_BIT_LENGTH) ELSE b \div Pow2(TAG_BIT_LENGTH)

getTags(preamble) ==
  [i \in 1..(PREAMBLE_BIT_LENGTH \div TAG_BIT_LENGTH) |-> getTag(preamble, i - 1)]

\* toI32 of a BigInt that does not fit 32 bits: builds of graph-ts either keep
\* the low bytes or abort with an overflow.
fitsI32(preamble) == \A k \in 5..Len(preamble) : preamble[k] = 0


(***************************************************************************)
(* EntityStore and entities.                                               *)
(***************************************************************************)
Put(table, id, entity) ==
  [x \in (DOMAIN table) \cup {id} |-> IF x = id THEN entity ELSE table[x]]

Has(table, id) == id \in DOMAIN table

EmptyStore ==
  [GlobalState |-> <<>>, Epoch |-> <<>>, NetworkEpochBlockNumber |-> <<>>,
   Network |-> <<>>, Payload |-> <<>>, MessageBlock |-> <<>>, Message |-> <<>>]

\* new GlobalState(id): the Int! fields read 0 and the references null until set.
NewGlobalState(id) ==
  [id |-> id, networkCount |-> 0, activeNetworkCount |-> 0,
   networkArrayHead |-> None, latestValidEpoch |-> None, encodingVersion |-> 0,
   permissionList |-> <<>>]

\* new Network(id)
NewNetwork(id) ==
  [id |-> id, chainID |-> None, addedAt |-> None, lastUpdatedAt |-> None,
   removedAt |-> None, nextArrayElement |-> None, arrayIndex |-> None,
   state |-> None]

\* new SetBlockNumbersForEpochMessage(id), later cast to the tag's type
NewMessage(id, block) ==
  [id |-> id, block |-> block, kind |-> None, data |-> None,
   merkleRoot |-> None, accelerations |-> None, removeCount |-> None,
   addCount |-> None]

\* The canonical state: [state, store], the store holding it afterwards.
getGlobalState(store) ==
  IF Has(store.GlobalState, "0")
  THEN [state |-> store.GlobalState["0"], store |-> store]
  ELSE [state |-> NewGlobalState("0"),
        store |-> [store EXCEPT !.GlobalState = Put(@, "0", NewGlobalState("0"))]]

\* getAuxGlobalState that starts every call from a new auxiliary state.
getAuxGlobalState_AlwaysNew(store) ==
  [state |-> NewGlobalState("1"),
   store |-> [store EXCEPT !.GlobalState = Put(@, "1", NewGlobalState("1"))]]

getAuxGlobalState(store) ==
  IF Has(store.GlobalState, "1")
  THEN [state |-> store.GlobalState["1"], store |-> store]
  ELSE [state |-> NewGlobalState("1"),
        store |-> [store EXCEPT !.GlobalState = Put(@, "1", NewGlobalState("1"))]]

\* commitToGlobalState that leaves latestValidEpoch out of the copy.
commitToGlobalState_WithoutEpoch(state, store) ==
  LET got == getGlobalState(store)
      realGlobalState ==
        [got.state EXCEPT !.networkCount = state.networkCount,
                          !.activeNetworkCount = state.activeNetworkCount]
  IN [got.store EXCEPT
        !.GlobalState = Put(Put(@, "0", realGlobalState), "1", state)]

\* The store after the three counters are copied to the canonical state and
\* both states saved.
commitToGlobalState(state, store) ==
  LET got == getGlobalState(store)
      realGlobalState ==
        [got.state EXCEPT !.networkCount = state.networkCount,
                          !.activeNetworkCount = state.activeNetworkCount,
                          !.latestValidEpoch = state.latestValidEpoch]
  IN [got.store EXCEPT
        !.GlobalState = Put(Put(@, "0", realGlobalState), "1", state)]

\* [epoch, store]
getOrCreateEpoch(epochId, store) ==
  LET id == DecStr(epochId)
  IN IF Has(store.Epoch, id)
     THEN [epoch |-> store.Epoch[id], store |-> store]
     ELSE LET epoch == [id |-> id, epochNumber |-> epochId]
          IN [epoch |-> epoch,
              store |-> [store EXCEPT !.Epoch = Put(@, id, epoch)]]

\* createOrUpdateNetworkEpochBlockNumber adding the acceleration, not the new
\* delta, to the previous block number.
createOrUpdateNetworkEpochBlockNumber_AddsAcceleration(networkId, epochId, acceleration, store) ==
  LET id == <<DecStr(epochId), networkId>>
      previousId == <<DecStr(epochId - 1), networkId>>
      table == store.NetworkEpochBlockNumber
      loaded ==
        IF Has(table, id)
        THEN table[id]
        ELSE [id |-> id, network |-> networkId, epoch |-> DecStr(epochId),
              acceleration |-> 0, delta |-> 0, blockNumber |-> 0]
      delta ==
        IF Has(table, previousId)
        THEN table[previousId].delta + acceleration
        ELSE acceleration
      blockNumber ==
        IF Has(table, previousId)
        THEN table[previousId].blockNumber + acceleration
        ELSE delta
      entity ==
        [loaded EXCEPT !.acceleration = acceleration, !.delta = delta,
                       !.blockNumber = blockNumber]
  IN [store EXCEPT !.NetworkEpochBlockNumber = Put(@, id, entity)]

\* The store after the entity of (epochId, networkId) is written.
createOrUpdateNetworkEpochBlockNumber(networkId, epochId, acceleration, store) ==
  LET id == <<DecStr(epochId), networkId>>
      previousId == <<DecStr(epochId - 1), networkId>>
      table == store.NetworkEpochBlockNumber
      loaded ==
        IF Has(table, id)
        THEN table[id]
        ELSE [id |-> id, network |-> networkId, epoch |-> DecStr(epochId),
              acceleration |-> 0, delta |-> 0, blockNumber |-> 0]
      delta ==
        IF Has(table, previousId)
        THEN table[previousId].delta + acceleration
        ELSE acceleration
      blockNumber ==
        IF Has(table, previousId)
        THEN table[previousId].blockNumber + delta
        ELSE delta
      entity ==
        [loaded EXCEPT !.acceleration = acceleration, !.delta = delta,
                       !.blockNumber = blockNumber]
  IN [store EXCEPT !.NetworkEpochBlockNumber = Put(@, id, entity)]

(***************************************************************************)
(* Network list (helpers.ts).                                              *)
(***************************************************************************)
\* The walk from nextId along nextArrayElement, collecting the ids of the
\* networks that are not removed.  fuel bounds the walk of the model: a walk
\* that outlives it is on a cycle, where the code does not return.
RECURSIVE WalkNetworks(_, _, _)
WalkNetworks(nextId, networks, fuel) ==
  IF nextId = None
  THEN [ids |-> <<>>, ends |-> TRUE]
  ELSE IF fuel = 0 \/ ~Has(networks, nextId[1])
  THEN [ids |-> <<>>, ends |-> FALSE]
  ELSE LET network == networks[nextId[1]]
           rest == WalkNetworks(network.nextArrayElement, networks, fuel - 1)
       IN [ids |-> (IF network.removedAt = None THEN <<nextId[1]>> ELSE <<>>)
                    \o rest.ids,
           ends |-> rest.ends]

\* [networks, ok]: the active networks in list order, and whether the walk
\* returns with its length assertion satisfied.
getActiveNetworks(state, networks) ==
  LET walk == WalkNetworks(state.networkArrayHead, networks,
                           Cardinality(DOMAIN networks) + 1)
  IN [networks |-> walk.ids,
      ok |-> walk.ends /\ Len(walk.ids) = state.activeNetworkCount]

\* [removed, networks]: the element at index and the list without it, the tail
\* in its place; ok is the assertion index < networks.length.
swapAndPop(index, networks) ==
  LET n == Len(networks)
      swapped == [k \in 1..n |->
                    IF k = index + 1 THEN networks[n]
                    ELSE IF k = n THEN networks[index + 1]
                    ELSE networks[k]]
  IN IF index < n
     THEN [ok |-> TRUE, removed |-> swapped[n], networks |-> SubSeq(swapped, 1, n - 1)]
     ELSE [ok |-> FALSE, removed |-> None, networks |-> networks]

\* commitNetworkChanges that leaves state.networkArrayHead as it was.
commitNetworkChanges_KeepsHead(removedNetworks, newNetworksList, state, networks) ==
  LET n == Len(newNetworksList)
      Holds(list, id) == \E k \in 1..Len(list) : list[k] = id
      cleared ==
        [id \in DOMAIN networks |->
           IF Holds(removedNetworks, id)
           THEN [networks[id] EXCEPT !.state = None, !.nextArrayElement = None,
                                     !.arrayIndex = None]
           ELSE networks[id]]
      linked ==
        [id \in DOMAIN networks |->
           IF Holds(newNetworksList, id)
           THEN LET i == (CHOOSE k \in 1..n :
                            /\ newNetworksList[k] = id
                            /\ \A j \in (k + 1)..n : newNetworksList[j] # id) - 1
                IN [cleared[id] EXCEPT
                      !.state = Some(state.id),
                      !.nextArrayElement =
                        IF i < n - 1 THEN Some(newNetworksList[i + 2]) ELSE None,
                      !.arrayIndex = Some(i)]
           ELSE cleared[id]]
  IN [state |-> [state EXCEPT !.activeNetworkCount = n],
      networks |-> linked]

\* [state, networks]: the arrays hold the entities of the networks table by
\* id, and an entity that an array holds twice keeps what the last pass of
\* the loop wrote.
commitNetworkChanges(removedNetworks, newNetworksList, state, networks) ==
  LET n == Len(newNetworksList)
      Holds(list, id) == \E k \in 1..Len(list) : list[k] = id
      cleared ==
        [id \in DOMAIN networks |->
           IF Holds(removedNetworks, id)
           THEN [networks[id] EXCEPT !.state = None, !.nextArrayElement = None,
                                     !.arrayIndex = None]
           ELSE networks[id]]
      linked ==
        [id \in DOMAIN networks |->
           IF Holds(newNetworksList, id)
           THEN LET i == (CHOOSE k \in 1..n :
                            /\ newNetworksList[k] = id
                            /\ \A j \in (k + 1)..n : newNetworksList[j] # id) - 1
                IN [cleared[id] EXCEPT
                      !.state = Some(state.id),
                      !.nextArrayElement =
                        IF i < n - 1 THEN Some(newNetworksList[i + 2]) ELSE None,
                      !.arrayIndex = Some(i)]
           ELSE cleared[id]]
  IN [state |-> [state EXCEPT
                   !.networkArrayHead =
                     IF n > 0 THEN Some(newNetworksList[1]) ELSE None,
                   !.activeNetworkCount = n],
      networks |-> linked]

(***************************************************************************)
(* Message executors.  Each returns                                        *)
(*   [trap, err, bytesRead, globalState, store]                            *)
(* trap: the handler aborted in a read past the end of data; err: some     *)
(* varint decoder returned consumed = 0, which the executors do not test.  *)
(***************************************************************************)
\* One pass of the loop over the active networks: loop is
\* [trap, err, bytesRead, accelerations, store].
AccelerationStep(i, data, epochNumber, loop) ==
  With(decodePrefixVarIntI64(data, loop.bytesRead), LAMBDA readAcceleration :
    IF readAcceleration.trap
    THEN [loop EXCEPT !.trap = TRUE]
    ELSE [trap |-> FALSE,
          err |-> loop.err \/ readAcceleration.consumed = 0,
          bytesRead |-> loop.bytesRead + readAcceleration.consumed,
          accelerations |-> Append(loop.accelerations, readAcceleration.value),
          store |-> createOrUpdateNetworkEpochBlockNumber(
                      DecStr(i), epochNumber, readAcceleration.value, loop.store)])

\* for (let i = 0; i < globalState.activeNetworkCount; i++)
RECURSIVE AccelerationLoop(_, _, _, _, _)
AccelerationLoop(i, count, data, epochNumber, loop) ==
  IF i >= count \/ loop.trap
  THEN loop
  ELSE With(AccelerationStep(i, data, epochNumber, loop), LAMBDA next :
         AccelerationLoop(i + 1, count, data, epochNumber, next))

\* newEpochId without the increment: the latest valid epoch again.
newEpochId_NoIncrement(globalState) ==
  IF globalState.latestValidEpoch # None
  THEN ParseDec(globalState.latestValidEpoch[1])
  ELSE 0

\* (latestValidEpoch != null ? BigInt.fromString(latestValidEpoch) : 0) + 1
newEpochId(globalState) ==
  (IF globalState.latestValidEpoch # None
   THEN ParseDec(globalState.latestValidEpoch[1])
   ELSE 0) + 1

executeSetBlockNumbersForEpochMessage(message, globalState, data, store) ==
  IF globalState.activeNetworkCount # 0
  THEN
    With(getOrCreateEpoch(newEpochId(globalState), store), LAMBDA got :
    With(AccelerationLoop(
           0, globalState.activeNetworkCount, data, got.epoch.epochNumber,
           [trap |-> FALSE, err |-> FALSE, bytesRead |-> MERKLE_ROOT_LENGTH,
            accelerations |-> <<>>, store |-> got.store]), LAMBDA loop :
      LET saved == [message EXCEPT
                      !.kind = Some("SetBlockNumbersForEpochMessage"),
                      !.merkleRoot = Some(Slice(data, 0, MERKLE_ROOT_LENGTH)),
                      !.accelerations = Some(loop.accelerations),
                      !.data = Some(Slice(data, 0, loop.bytesRead))]
      IN [trap |-> loop.trap, err |-> loop.err, bytesRead |-> loop.bytesRead,
          globalState |-> [globalState EXCEPT
                             !.latestValidEpoch = Some(got.epoch.id)],
          store |-> [loop.store EXCEPT !.Message = Put(@, message.id, saved)]]))
  ELSE
    [trap |-> FALSE, err |-> FALSE, bytesRead |-> 0, globalState |-> globalState,
     store |-> [store EXCEPT !.Message =
                  Put(@, message.id,
                      [message EXCEPT !.kind = Some("SetBlockNumbersForEpochMessage")])]]

\* "To Do": reads nothing, saves nothing.
executeCorrectEpochsMessage(message, globalState, data, store) ==
  [trap |-> FALSE, err |-> FALSE, bytesRead |-> 0, globalState |-> globalState,
   store |-> store]

\* "To Do": reads nothing, saves nothing.
executeUpdateVersionsMessage(message, globalState, data, store) ==
  [trap |-> FALSE, err |-> FALSE, bytesRead |-> 0, globalState |-> globalState,
   store |-> store]

\* One pass of the loop over the removed network ids: loop is
\* [trap, err, bytesRead, globalState, store].
RemoveStep(data, loop) ==
  With(decodePrefixVarIntU64(data, loop.bytesRead), LAMBDA readRemove :
    IF readRemove.trap
    THEN [loop EXCEPT !.trap = TRUE]
    ELSE [loop EXCEPT
            !.err = @ \/ readRemove.consumed = 0,
            !.bytesRead = @ + readRemove.consumed,
            !.globalState.activeNetworkCount = @ - 1])

\* for (let i = 0; i < (readRemoveLength[0] as i32); i++)
RECURSIVE RemoveLoop(_, _, _, _)
RemoveLoop(i, count, data, loop) ==
  IF i >= count \/ loop.trap
  THEN loop
  ELSE With(RemoveStep(data, loop), LAMBDA next :
         RemoveLoop(i + 1, count, data, next))

\* One pass of the loop over the added chain ids.
AddStep(data, message, loop) ==
  With(decodePrefixVarIntU64(data, loop.bytesRead), LAMBDA readStrLength :
    LET at == loop.bytesRead + readStrLength.consumed
        chainID == getStringFromBytes(data, at, readStrLength.value)
        id == DecStr(loop.globalState.networkCount)
        network == [NewNetwork(id) EXCEPT !.chainID = Some(chainID),
                                          !.addedAt = Some(message.id)]
    IN IF readStrLength.trap
       THEN [loop EXCEPT !.trap = TRUE]
       ELSE [loop EXCEPT
               !.err = @ \/ readStrLength.consumed = 0,
               !.bytesRead = at + readStrLength.value,
               !.globalState.networkCount = @ + 1,
               !.globalState.activeNetworkCount = @ + 1,
               !.store.Network = Put(@, id, network)])

\* for (let i = 0; i < (readAddLength[0] as i32); i++)
RECURSIVE AddLoop(_, _, _, _, _)
AddLoop(i, count, data, message, loop) ==
  IF i >= count \/ loop.trap
  THEN loop
  ELSE With(AddStep(data, message, loop), LAMBDA next :
         AddLoop(i + 1, count, data, message, next))

\* The varint that counts a loop's passes: [trap, err, value, loop], the loop
\* record past the varint.
ReadLength(data, loop) ==
  With(decodePrefixVarIntU64(data, loop.bytesRead), LAMBDA read :
    [value |-> read.value,
     loop |-> IF read.trap
              THEN [loop EXCEPT !.trap = TRUE]
              ELSE [loop EXCEPT !.err = @ \/ read.consumed = 0,
                                !.bytesRead = @ + read.consumed]])

executeRegisterNetworksMessage(message, globalState, data, store) ==
  With(ReadLength(data, [trap |-> FALSE, err |-> FALSE, bytesRead |-> 0,
                         globalState |-> globalState, store |-> store]),
       LAMBDA readRemoveLength :
  With(RemoveLoop(0, readRemoveLength.value, data, readRemoveLength.loop),
       LAMBDA removes :
  With(IF removes.trap THEN [value |-> 0, loop |-> removes]
       ELSE ReadLength(data, removes),
       LAMBDA readAddLength :
  With(AddLoop(0, readAddLength.value, data, message, readAddLength.loop),
       LAMBDA adds :
    LET saved == [message EXCEPT
                    !.kind = Some("RegisterNetworksMessage"),
                    !.data = Some(Slice(data, 0, adds.bytesRead)),
                    !.removeCount = Some(readRemoveLength.value),
                    !.addCount = Some(readAddLength.value)]
    IN IF adds.trap
       THEN adds
       ELSE [adds EXCEPT !.store.Message = Put(@, message.id, saved)]))))

\* Executes the message and returns the amount of bytes read; a tag above 3
\* matches no branch.
executeMessage(tag, index, globalState, messageBlockID, data, store) ==
  LET message == NewMessage(<<messageBlockID, DecStr(index)>>, messageBlockID)
  IN CASE tag = 0 ->
            executeSetBlockNumbersForEpochMessage(message, globalState, data, store)
       [] tag = 1 ->
            executeCorrectEpochsMessage(message, globalState, data, store)
       [] tag = 2 ->
            executeUpdateVersionsMessage(message, globalState, data, store)
       [] tag = 3 ->
            executeRegisterNetworksMessage(message, globalState, data, store)
       [] OTHER ->
            [trap |-> FALSE, err |-> FALSE, bytesRead |-> 0,
             globalState |-> globalState, store |-> store]

(***************************************************************************)
(* Payloads the calls carry.  The encoders are the inverse of the codec on *)
(* the one-byte length class.                                              *)
(***************************************************************************)
EncodeU(v) == <<2 * v + 1>>

EncodeI(v) == IF v >= 0 THEN EncodeU(2 * v) ELSE EncodeU(-2 * v - 1)

EncodeString(str) == EncodeU(Len(str)) \o str

\* Eight tags in the low four bytes, low nibble first; the high bytes are 0.
Preamble(t) ==
  <<t[1] + 16 * t[2], t[3] + 16 * t[4], t[5] + 16 * t[6], t[7] + 16 * t[8],
    0, 0, 0, 0>>

MerkleRoot == [k \in 1..MERKLE_ROOT_LENGTH |-> 1]

Eth == <<101, 116, 104>>
Gno == <<103, 110, 111>>

\* S2: register "eth" and "gno".
PayloadRegister ==
  Preamble(<<3, 0, 0, 0, 0, 0, 0, 0>>)
    \o EncodeU(0) \o EncodeU(2) \o EncodeString(Eth) \o EncodeString(Gno)

\* S3 and S4: block numbers for two networks.
PayloadSetBlockNumbers(a, b) ==
  Preamble(<<0, 0, 0, 0, 0, 0, 0, 0>>) \o MerkleRoot \o EncodeI(a) \o EncodeI(b)

\* S5: remove index 0.
PayloadRemove ==
  Preamble(<<3, 0, 0, 0, 0, 0, 0, 0>>) \o EncodeU(1) \o EncodeU(0) \o EncodeU(0)

\* S6: tag 0 with a body of 10 bytes.
PayloadTruncatedRoot ==
  Preamble(<<0, 0, 0, 0, 0, 0, 0, 0>>) \o [k \in 1..10 |-> 1]

\* One add whose string length is the first byte of a two-byte varint that
\* the payload ends in.
PayloadTruncatedVarint ==
  Preamble(<<3, 1, 1, 1, 1, 1, 1, 1>>) \o EncodeU(0) \o EncodeU(1) \o <<2>>

\* UpdateVersions to version 1, then to version 1 again.
PayloadUpdateVersions ==
  Preamble(<<2, 2, 1, 1, 1, 1, 1, 1>>) \o EncodeU(1) \o EncodeU(1)

\* An unregistered tag, then a registration of "gno".
PayloadUnknownTag ==
  Preamble(<<7, 3, 1, 1, 1, 1, 1, 1>>)
    \o EncodeU(0) \o EncodeU(1) \o EncodeString(Gno)

\* Two message blocks: one CorrectEpochs message, its fifteen other slots
\* zero, then block numbers for two networks.
PayloadTwoBlocks ==
  Preamble(<<1, 0, 0, 0, 0, 0, 0, 0>>) \o PayloadSetBlockNumbers(1, 1)

\* One add whose string is announced with five bytes and has three.
PayloadTruncatedString ==
  Preamble(<<3, 1, 1, 1, 1, 1, 1, 1>>)
    \o EncodeU(0) \o EncodeU(1) \o EncodeU(5) \o Eth

Payloads ==
  {PayloadRegister, PayloadSetBlockNumbers(5, -3), PayloadSetBlockNumbers(2, 4),
   PayloadRemove, PayloadTruncatedRoot, PayloadTruncatedVarint,
   PayloadUpdateVersions, PayloadUnknownTag, PayloadTwoBlocks,
   PayloadTruncatedString}

(***************************************************************************)
(* State.                                                                  *)
(***************************************************************************)
VARIABLES
  pc,                   \* "idle", "outer" (the while test), "inner" (the for test), "aborted"
  tx,                   \* calls handled so far; the hash of the current one
  store,                \* the EntityStore
  globalState,          \* the handler's GlobalState object (the auxiliary one)
  rawPayloadData,       \* the payload not yet read
  messageBlockCounter,
  tags,
  i,                    \* the slot of tags the for loop is at
  snapshot,             \* the EntityStore as the current call found it
  err,                  \* a varint decoder returned consumed = 0 in this call
  committed,            \* commitToGlobalState ran in this call
  last,                 \* the last message executed: its input and its effect
  input,                \* the bytes and offset handed to the codec on its own
  output,               \* what the codec returned for input
  cache,                \* the StoreCache of a registration: state and networks
  newNetworksList,      \* the ids of the networks the registration retains
  removedNetworks,      \* the ids of the networks the registration removed
  registration          \* the registration's number and position

driverVars ==
  <<pc, tx, store, globalState, rawPayloadData, messageBlockCounter, tags, i,
    snapshot, err, committed, last>>

codecVars == <<input, output>>

listVars == <<cache, newNetworksList, removedNetworks, registration>>

vars == <<driverVars, codecVars, listVars>>

NoTags == [k \in 1..(PREAMBLE_BIT_LENGTH \div TAG_BIT_LENGTH) |-> 0]

NoMessage == [tag |-> -1]

NoInput == [kind |-> "none"]

NoOutput == [op |-> "none"]

DriverInit ==
  /\ pc = "idle"
  /\ tx = 0
  /\ store = EmptyStore
  /\ globalState = NewGlobalState("1")
  /\ rawPayloadData = <<>>
  /\ messageBlockCounter = 0
  /\ tags = NoTags
  /\ i = 0
  /\ snapshot = EmptyStore
  /\ err = FALSE
  /\ committed = FALSE
  /\ last = NoMessage

\* No registration: an empty cache and empty arrays.
NoRegistration == [number |-> 0, pc |-> "none"]

EmptyCache == [state |-> NewGlobalState("0"), networks |-> <<>>]

ListIdle ==
  /\ cache = EmptyCache
  /\ newNetworksList = <<>>
  /\ removedNetworks = <<>>
  /\ registration = NoRegistration

Init ==
  /\ DriverInit
  /\ input = NoInput
  /\ output = NoOutput
  /\ ListIdle

messageBlockID == <<tx, DecStr(messageBlockCounter)>>

(***************************************************************************)
(* handleCrossChainEpochOracle, one action per step of its loops.          *)
(***************************************************************************)
\* The call arrives: the auxiliary state is loaded and the payload saved.
Start ==
  /\ pc = "idle"
  /\ tx < MaxInvocations
  /\ \E payloadBytes \in Payloads :
       LET got == getAuxGlobalState(store)
           payload == [id |-> tx + 1, data |-> payloadBytes, valid |-> None,
                       errorMessage |-> None]
       IN /\ globalState' = got.state
          /\ store' = [got.store EXCEPT !.Payload = Put(@, tx + 1, payload)]
          /\ rawPayloadData' = payloadBytes
  /\ tx' = tx + 1
  /\ snapshot' = store
  /\ messageBlockCounter' = 0
  /\ tags' = NoTags
  /\ i' = 0
  /\ err' = FALSE
  /\ committed' = FALSE
  /\ last' = NoMessage
  /\ pc' = "outer"
  /\ UNCHANGED <<codecVars, listVars>>

\* while (rawPayloadData.length > 0): the preamble is read and skipped.
BlockStart ==
  /\ pc = "outer"
  /\ Len(rawPayloadData) > 0
  /\ tags' = getTags(Slice(rawPayloadData, 0, PREAMBLE_BIT_LENGTH \div 8))
  /\ rawPayloadData' = SliceFrom(rawPayloadData, PREAMBLE_BIT_LENGTH \div 8)
  /\ i' = 0
  /\ pc' = "inner"
  /\ UNCHANGED <<tx, store, globalState, messageBlockCounter, snapshot, err,
                 committed, last>>
  /\ UNCHANGED <<codecVars, listVars>>

\* The handler aborts: the host drops what the handler wrote and stops.
Aborted ==
  /\ pc' = "aborted"
  /\ store' = snapshot
  /\ globalState' = getAuxGlobalState(snapshot).state
  /\ UNCHANGED <<tx, rawPayloadData, messageBlockCounter, tags, i, snapshot,
                 err, committed, last>>
  /\ UNCHANGED <<codecVars, listVars>>

\* getTag in a build whose toI32 refuses a preamble wider than 32 bits.
PreambleOverflow ==
  /\ pc = "outer"
  /\ Len(rawPayloadData) > 0
  /\ ~fitsI32(Slice(rawPayloadData, 0, PREAMBLE_BIT_LENGTH \div 8))
  /\ Aborted

InSlot ==
  /\ pc = "inner"
  /\ i < Len(tags)
  /\ Len(rawPayloadData) # 0

Executed ==
  executeMessage(tags[i + 1], i, globalState, messageBlockID, rawPayloadData, store)

\* One pass of the for loop: the message of slot i is executed and its bytes
\* are skipped.
Execute(tag) ==
  /\ InSlot
  /\ tags[i + 1] = tag
  /\ \E executed \in {Executed} :
       /\ ~executed.trap
       /\ globalState' = executed.globalState
       /\ store' = executed.store
       /\ rawPayloadData' = SliceFrom(rawPayloadData, executed.bytesRead)
       /\ err' = (err \/ executed.err)
       /\ last' = [tag |-> tag, id |-> <<messageBlockID, DecStr(i)>>,
                   data |-> rawPayloadData, bytesRead |-> executed.bytesRead,
                   err |-> executed.err,
                   stateBefore |-> globalState, stateAfter |-> executed.globalState,
                   storeBefore |-> store, storeAfter |-> executed.store]
  /\ i' = i + 1
  /\ UNCHANGED <<pc, tx, messageBlockCounter, tags, snapshot, committed>>
  /\ UNCHANGED <<codecVars, listVars>>

SetBlockNumbersForEpoch == Execute(0)

CorrectEpochs == Execute(1)

UpdateVersions == Execute(2)

RegisterNetworks == Execute(3)

OtherTag == \E tag \in 4..(Pow2(TAG_BIT_LENGTH) - 1) : Execute(tag)

\* An executor reads past the end of the payload.
Trap ==
  /\ InSlot
  /\ Executed.trap
  /\ Aborted

\* The for loop ends (all slots done, or no payload left): the block is saved.
BlockEnd ==
  /\ pc = "inner"
  /\ ~(i < Len(tags) /\ Len(rawPayloadData) # 0)
  /\ store' = [store EXCEPT !.MessageBlock =
                 Put(@, messageBlockID,
                     [id |-> messageBlockID, data |-> rawPayloadData,
                      payload |-> tx])]
  /\ messageBlockCounter' = messageBlockCounter + 1
  /\ pc' = "outer"
  /\ UNCHANGED <<tx, globalState, rawPayloadData, tags, i, snapshot, err,
                 committed, last>>
  /\ UNCHANGED <<codecVars, listVars>>

\* The while loop ends: commitToGlobalState.
Commit ==
  /\ pc = "outer"
  /\ Len(rawPayloadData) = 0
  /\ store' = commitToGlobalState(globalState, store)
  /\ committed' = TRUE
  /\ pc' = "idle"
  /\ UNCHANGED <<tx, globalState, rawPayloadData, messageBlockCounter, tags, i,
                 snapshot, err, last>>
  /\ UNCHANGED <<codecVars, listVars>>

Next ==
  \/ Start
  \/ BlockStart
  \/ PreambleOverflow
  \/ SetBlockNumbersForEpoch
  \/ CorrectEpochs
  \/ UpdateVersions
  \/ RegisterNetworks
  \/ OtherTag
  \/ Trap
  \/ BlockEnd
  \/ Commit

Spec == Init /\ [][Next]_vars

(***************************************************************************)
(* The codec called on its own: decodePrefixVarIntU64, decodePrefixVarIntI64,*)
(* zigZagDecode and getTags are exported, and here each is applied once to *)
(* an input taken from a bounded set.                                      *)
(***************************************************************************)
\* Largest number of bytes that precede a varint in the input.
MaxPad == 2

\* The word whose 1 bits are at the given positions (1 is the lowest).
Word(bits) == [k \in 1..WORD_BITS |-> IF k \in bits THEN 1 ELSE 0]

\* The position of the highest 1 bit, 0 for the word 0.
BitLength(w) ==
  IF w = Zero64 THEN 0
  ELSE CHOOSE k \in 1..WORD_BITS :
         w[k] = 1 /\ \A j \in (k + 1)..WORD_BITS : w[j] = 0

\* Byte j (1 is the lowest) of a word.
ByteOf(w, j) ==
  LET b(k) == w[8 * (j - 1) + k]
  IN b(1) + 2 * b(2) + 4 * b(3) + 8 * b(4) + 16 * b(5) + 32 * b(6)
     + 64 * b(7) + 128 * b(8)

\* The word as a number, for a word below 2^31.
WordValue(w) ==
  ByteOf(w, 1) + Pow2(8) * ByteOf(w, 2) + Pow2(16) * ByteOf(w, 3)
  + Pow2(24) * ByteOf(w, 4)

\* The shortest prefix varint that holds a value: seven value bits per byte
\* up to eight bytes, and a ninth byte when the value needs more than 56 bits.
EncodedLength(w) ==
  LET n == BitLength(w)
  IN IF n > 56 THEN 9 ELSE IF n = 0 THEN 1 ELSE (n + 6) \div 7

\* The prefix varint of a value: L - 1 zero bits and a one bit, then the value,
\* little-endian; for L = 9 a zero byte and the eight bytes of the value.
EncodeVarInt(w) ==
  LET L == EncodedLength(w)
  IN IF L = 9
     THEN <<0>> \o [j \in 1..8 |-> ByteOf(w, j)]
     ELSE LET e == Or(Shl(w, L), Word({L}))
          IN [j \in 1..L |-> ByteOf(e, j)]

\* (i << 1) ^ (i >> 63), the shift to the right being arithmetic.
ZigZagEncode(w) ==
  Xor(Shl(w, 1), IF w[WORD_BITS] = 1 THEN Not(Zero64) ELSE Zero64)

LengthClasses == 1..9

\* The number of value bits of a length class.
ClassBits(L) == IF L = 9 THEN WORD_BITS ELSE 7 * L

\* The smallest value of a length class, the largest one, and one between.
ClassMin(L) == IF L = 1 THEN Zero64 ELSE Word({ClassBits(L - 1) + 1})

ClassMax(L) == Word(1..ClassBits(L))

ClassMix(L) == Word({k \in 1..ClassBits(L) : k % 3 = 1} \cup {ClassBits(L)})

UnsignedWords ==
  UNION {{ClassMin(L), ClassMax(L), ClassMix(L)} : L \in LengthClasses}
  \cup {Word({1}), Word({2}), Word({1, 2}), Word({2, 3})}

\* i64 values: 0, 1, 5, the largest, and -1, -3, the smallest; one of each
\* sign with a bit in every byte.
SignedWords ==
  {Zero64, Word({1}), Word({1, 3}), Word(1..(WORD_BITS - 1)),
   Not(Zero64), Not(Word({2})), Word({WORD_BITS}),
   Word({k \in 1..(WORD_BITS - 1) : k % 3 = 1}),
   Not(Word({k \in 1..(WORD_BITS - 1) : k % 3 = 1}))}

VarintWords == UnsignedWords \cup {ZigZagEncode(w) : w \in SignedWords}

Pad(p) == [j \in 1..p |-> 255]

\* A varint after some bytes, whole or cut short, alone or followed by a
\* byte, and an offset: the one of the varint, the end of the bytes, or the
\* position after it.
VarintInputs ==
  UNION {
    UNION {
      UNION {
        LET varint == EncodeVarInt(w)
            bytes == Pad(p) \o SubSeq(varint, 1, Len(varint) - cut) \o rest
        IN {[kind |-> "bytes", bytes |-> bytes, offset |-> offset] :
              offset \in {p, Len(bytes), Len(bytes) + 1}} :
        rest \in {<<>>, <<255>>}} :
      cut \in {0, 1, EncodedLength(w)}} :
    w \in VarintWords, p \in 0..MaxPad}

WordInputs == {[kind |-> "word", word |-> w] : w \in VarintWords}

\* Preambles whose upper four bytes are zero, and one where they are not.
PreambleInputs ==
  {[kind |-> "preamble", bytes |-> preamble] :
     preamble \in {<<3, 0, 0, 0, 0, 0, 0, 0>>,
                   <<0, 0, 0, 0, 0, 0, 0, 0>>,
                   <<33, 67, 101, 7, 0, 0, 0, 0>>,
                   <<19, 17, 17, 17, 0, 0, 0, 0>>,
                   <<3, 0, 0, 0, 1, 0, 0, 0>>,
                   <<33, 67, 101, 7, 18, 50, 1, 2>>}}

CodecInputs == VarintInputs \cup WordInputs \cup PreambleInputs

CodecInit ==
  /\ DriverInit
  /\ input \in CodecInputs
  /\ output = NoOutput
  /\ ListIdle

\* The decoder on numbers can be evaluated when no field reaches 2^31.
InIntRange(bytes, offset) ==
  /\ offset < Len(bytes)
  /\ LET shift == Min(ctz(bytes[offset + 1]), 8)
     IN \/ offset + shift >= Len(bytes)
        \/ shift <= 3
        \/ shift = 4 /\ bytes[offset + 5] < 16

CallDecodePrefixVarIntU64 ==
  /\ output = NoOutput
  /\ input.kind = "bytes"
  /\ \E result \in {decodePrefixVarIntU64Bits(input.bytes, input.offset)} :
       output' =
         [op |-> "decodePrefixVarIntU64", trap |-> result.trap,
          word |-> result.word, consumed |-> result.consumed,
          value |-> IF InIntRange(input.bytes, input.offset)
                    THEN Some(decodePrefixVarIntU64(input.bytes,
                                                    input.offset).value)
                    ELSE None]
  /\ UNCHANGED <<driverVars, input, listVars>>

CallDecodePrefixVarIntI64 ==
  /\ output = NoOutput
  /\ input.kind = "bytes"
  /\ \E result \in {decodePrefixVarIntI64Bits(input.bytes, input.offset)} :
       output' =
         [op |-> "decodePrefixVarIntI64", trap |-> result.trap,
          word |-> result.word, consumed |-> result.consumed,
          value |-> IF InIntRange(input.bytes, input.offset)
                    THEN Some(decodePrefixVarIntI64(input.bytes,
                                                    input.offset).value)
                    ELSE None]
  /\ UNCHANGED <<driverVars, input, listVars>>

CallZigZagDecode ==
  /\ output = NoOutput
  /\ input.kind = "word"
  /\ output' =
       [op |-> "zigZagDecode", word |-> zigZagDecodeBits(input.word),
        value |-> IF BitLength(input.word) < 32
                  THEN Some(zigZagDecode(WordValue(input.word)))
                  ELSE None]
  /\ UNCHANGED <<driverVars, input, listVars>>

CallGetTags ==
  /\ output = NoOutput
  /\ input.kind = "preamble"
  /\ output' = [op |-> "getTags", trap |-> FALSE, tags |-> getTags(input.bytes)]
  /\ UNCHANGED <<driverVars, input, listVars>>

\* toI32 of a preamble that does not fit 32 bits may abort instead.
CallGetTagsOverflow ==
  /\ output = NoOutput
  /\ input.kind = "preamble"
  /\ ~fitsI32(input.bytes)
  /\ output' = [op |-> "getTags", trap |-> TRUE, tags |-> <<>>]
  /\ UNCHANGED <<driverVars, input, listVars>>

CodecNext ==
  \/ CallDecodePrefixVarIntU64
  \/ CallDecodePrefixVarIntI64
  \/ CallZigZagDecode
  \/ CallGetTags
  \/ CallGetTagsOverflow

CodecSpec == CodecInit /\ [][CodecNext]_vars

(***************************************************************************)
(* The network list manager of helpers.ts called by a registration:        *)
(* the active list is materialised, networks are removed by swapAndPop and *)
(* added at the end, and commitNetworkChanges writes the links.  The       *)
(* entities live in the StoreCache, which the arrays refer to by id.       *)
(***************************************************************************)
\* The number of registrations that follow one another.
MaxRegistrations == 3

ChainIds == {"eth", "gno", "sol"}

\* A registration starts: getActiveNetworks gives the list it works on.
StartRegistration ==
  /\ registration.pc \in {"none", "committed"}
  /\ registration.number < MaxRegistrations
  /\ \E active \in {getActiveNetworks(cache.state, cache.networks)} :
       /\ active.ok
       /\ newNetworksList' = active.networks
  /\ removedNetworks' = <<>>
  /\ registration' = [number |-> registration.number + 1, pc |-> "removing"]
  /\ UNCHANGED <<driverVars, codecVars, cache>>

\* One removal: swapAndPop, and the removed network is marked.
RemoveNetwork ==
  /\ registration.pc = "removing"
  /\ \E index \in 0..(Len(newNetworksList) - 1) :
       \E popped \in {swapAndPop(index, newNetworksList)} :
         /\ popped.ok
         /\ newNetworksList' = popped.networks
         /\ removedNetworks' = Append(removedNetworks, popped.removed)
         /\ cache' = [cache EXCEPT
                        !.networks[popped.removed].removedAt =
                          Some(registration.number)]
  /\ UNCHANGED <<driverVars, codecVars, registration>>

\* One addition: a new network, or one that an earlier registration removed,
\* is put at the end of the list.
AddNetwork ==
  /\ registration.pc \in {"removing", "adding"}
  /\ \E id \in ChainIds :
       /\ \A k \in 1..Len(newNetworksList) : newNetworksList[k] # id
       /\ \A k \in 1..Len(removedNetworks) : removedNetworks[k] # id
       /\ cache' = [cache EXCEPT
                      !.networks =
                        Put(@, id,
                            [NewNetwork(id) EXCEPT
                               !.chainID = Some(id),
                               !.addedAt = Some(registration.number),
                               !.lastUpdatedAt = Some(registration.number)]),
                      !.state.networkCount = @ + 1]
       /\ newNetworksList' = Append(newNetworksList, id)
  /\ registration' = [registration EXCEPT !.pc = "adding"]
  /\ UNCHANGED <<driverVars, codecVars, removedNetworks>>

CommitNetworkChanges ==
  /\ registration.pc \in {"removing", "adding"}
  /\ \E changes \in {commitNetworkChanges(removedNetworks, newNetworksList,
                                          cache.state, cache.networks)} :
       cache' = [state |-> changes.state, networks |-> changes.networks]
  /\ registration' = [registration EXCEPT !.pc = "committed"]
  /\ UNCHANGED <<driverVars, codecVars, newNetworksList, removedNetworks>>

ListNext ==
  \/ StartRegistration
  \/ RemoveNetwork
  \/ AddNetwork
  \/ CommitNetworkChanges

ListSpec == Init /\ [][ListNext]_vars

(***************************************************************************)
(* Properties.                                                             *)
(***************************************************************************)
\* A call has ended: its handler returned or aborted.
Finished == pc \in {"idle", "aborted"} /\ tx > 0

\* The call failed to decode: a decoder reported an error or the handler aborted.
Failed == err \/ pc = "aborted"

\* The canonical state a store holds: default-initialised until first saved.
Canonical(st) ==
  IF Has(st.GlobalState, "0") THEN st.GlobalState["0"] ELSE NewGlobalState("0")

EpochNumber(state) ==
  IF state.latestValidEpoch = None THEN 0 ELSE ParseDec(state.latestValidEpoch[1])

\* C1: a call that fails to decode leaves the canonical GlobalState as the
\* call found it, field by field.
C1_FailedDecodeKeepsCanonical ==
  (Finished /\ Failed) => Canonical(store) = Canonical(snapshot)

\* C2: a call ends either in success (commit, payload.valid = true) or in a
\* decoder error (no commit, the auxiliary state rolled back to the canonical
\* counters, payload.valid = false, payload.errorMessage set).
C2_CommitOrRollback ==
  Finished =>
    /\ Has(store.Payload, tx)
    /\ IF Failed
       THEN /\ ~committed
            /\ store.Payload[tx].valid = Some(FALSE)
            /\ store.Payload[tx].errorMessage # None
            /\ Has(store.GlobalState, "1")
            /\ store.GlobalState["1"].networkCount = Canonical(store).networkCount
            /\ store.GlobalState["1"].activeNetworkCount
                 = Canonical(store).activeNetworkCount
            /\ store.GlobalState["1"].latestValidEpoch
                 = Canonical(store).latestValidEpoch
       ELSE /\ committed
            /\ store.Payload[tx].valid = Some(TRUE)

\* C3: after a call that fails to decode, the EntityStore holds no Network,
\* Epoch or NetworkEpochBlockNumber that the call created or changed.
C3_FailedCallDiscardsEntities ==
  (Finished /\ Failed) =>
    /\ store.Network = snapshot.Network
    /\ store.Epoch = snapshot.Epoch
    /\ store.NetworkEpochBlockNumber = snapshot.NetworkEpochBlockNumber

\* C4: the walk from networkArrayHead visits exactly activeNetworkCount
\* networks that are not removed, its length assertion holds, and each visited
\* network's arrayIndex is its position in the walk.
C4_ListMatchesCount ==
  LET active == getActiveNetworks(globalState, store.Network)
  IN /\ active.ok
     /\ \A k \in 1..Len(active.networks) :
          store.Network[active.networks[k]].arrayIndex = Some(k - 1)

\* The first epoch of the unbroken run of entities of a network that ends at
\* epoch e.
RECURSIVE RunStart(_, _, _)
RunStart(e, network, table) ==
  IF e > 1 /\ Has(table, <<DecStr(e - 1), network>>)
  THEN RunStart(e - 1, network, table)
  ELSE e

\* Sum over j in from..k of (k - j + 1) * acceleration of epoch j.
RECURSIVE WeightedSum(_, _, _, _)
WeightedSum(from, k, network, table) ==
  IF from > k
  THEN 0
  ELSE (k - from + 1) * table[<<DecStr(from), network>>].acceleration
         + WeightedSum(from + 1, k, network, table)

\* C5: every NetworkEpochBlockNumber has delta = previous delta + acceleration
\* and blockNumber = previous blockNumber + delta, where the previous entity is
\* the same network's at the epoch before (zero when there is none); so after
\* accelerations a_1..a_k the blockNumber is the sum of (k - i + 1) * a_i.
C5_DeltaRecurrence ==
  \A id \in DOMAIN store.NetworkEpochBlockNumber :
    LET table == store.NetworkEpochBlockNumber
        entity == table[id]
        k == ParseDec(id[1])
        previousId == <<DecStr(k - 1), id[2]>>
    IN /\ IF Has(table, previousId)
          THEN /\ entity.delta = table[previousId].delta + entity.acceleration
               /\ entity.blockNumber = table[previousId].blockNumber + entity.delta
          ELSE /\ entity.delta = entity.acceleration
               /\ entity.blockNumber = entity.delta
       /\ entity.blockNumber = WeightedSum(RunStart(k, id[2], table), k, id[2], table)

\* Accelerations 5 then 2 have given block numbers 5 then 12, and -3 then 4
\* have given -3 then -2.
C5_SecondEpochWritten ==
  LET table == store.NetworkEpochBlockNumber
  IN /\ Has(table, <<DecStr(1), DecStr(0)>>)
     /\ Has(table, <<DecStr(2), DecStr(0)>>)
     /\ Has(table, <<DecStr(2), DecStr(1)>>)
     /\ table[<<DecStr(1), DecStr(0)>>].blockNumber = 5
     /\ table[<<DecStr(2), DecStr(0)>>].acceleration = 2
     /\ table[<<DecStr(2), DecStr(0)>>].delta = 7
     /\ table[<<DecStr(2), DecStr(0)>>].blockNumber = 12
     /\ table[<<DecStr(2), DecStr(1)>>].blockNumber = -2

\* C6: a SetBlockNumbersForEpoch message over n > 0 active networks decodes
\* exactly n accelerations, and the k-th goes to the entity whose id joins the
\* new epoch with the chainID of the k-th network of the active list; it
\* writes no other NetworkEpochBlockNumber.
C6_AccelerationsKeyedByChainID ==
  (last.tag = 0 /\ last.stateBefore.activeNetworkCount > 0 /\ ~last.err) =>
    LET n == last.stateBefore.activeNetworkCount
        active == getActiveNetworks(last.stateBefore, last.storeBefore.Network).networks
        epoch == last.stateAfter.latestValidEpoch[1]
        accelerations == last.storeAfter.Message[last.id].accelerations[1]
        before == last.storeBefore.NetworkEpochBlockNumber
        after == last.storeAfter.NetworkEpochBlockNumber
        written == {id \in DOMAIN after : ~Has(before, id) \/ before[id] # after[id]}
    IN /\ Len(accelerations) = n
       /\ Len(active) = n
       /\ \A k \in 1..n :
            /\ Has(after, <<epoch, active[k]>>)
            /\ after[<<epoch, active[k]>>].acceleration = accelerations[k]
       /\ written = {<<epoch, active[k]>> : k \in 1..n}

\* C7: SetBlockNumbersForEpoch with no active network consumes zero bytes,
\* creates no Epoch and leaves latestValidEpoch alone; with active networks it
\* gets or creates the Epoch numbered latestValidEpoch + 1 (1 when null) and
\* sets latestValidEpoch to it. No message lowers the epoch or skips a number.
C7_EpochAdvance ==
  /\ last.tag = 0 =>
       IF last.stateBefore.activeNetworkCount = 0
       THEN /\ last.bytesRead = 0
            /\ last.storeAfter.Epoch = last.storeBefore.Epoch
            /\ last.stateAfter.latestValidEpoch = last.stateBefore.latestValidEpoch
       ELSE last.stateBefore.activeNetworkCount > 0 =>
              /\ last.stateBefore.latestValidEpoch = None
                   => last.stateAfter.latestValidEpoch = Some(DecStr(1))
              /\ last.stateAfter.latestValidEpoch
                   = Some(DecStr(EpochNumber(last.stateBefore) + 1))
              /\ Has(last.storeAfter.Epoch, last.stateAfter.latestValidEpoch[1])
              /\ DOMAIN last.storeAfter.Epoch
                   = DOMAIN last.storeBefore.Epoch
                       \cup {last.stateAfter.latestValidEpoch[1]}
  /\ last.tag \in 1..15 =>
       last.stateAfter.latestValidEpoch = last.stateBefore.latestValidEpoch
  /\ last.tag # -1 =>
       EpochNumber(last.stateAfter) - EpochNumber(last.stateBefore) \in {0, 1}
  /\ DOMAIN store.Epoch = {DecStr(k) : k \in 1..EpochNumber(globalState)}

\* A SetBlockNumbersForEpoch message over active networks has advanced
\* latestValidEpoch from "1" to "2".
C7_AdvancedToSecondEpoch ==
  /\ last.tag = 0
  /\ last.stateBefore.activeNetworkCount > 0
  /\ last.stateBefore.latestValidEpoch = Some(DecStr(1))
  /\ last.stateAfter.latestValidEpoch = Some(DecStr(2))

\* The indexes a RegisterNetworks message asks to remove.
RECURSIVE ReadIndexes(_, _, _)
ReadIndexes(data, offset, count) ==
  IF count = 0 \/ offset >= Len(data)
  THEN <<>>
  ELSE With(decodePrefixVarIntU64(data, offset), LAMBDA d :
         IF d.consumed = 0
         THEN <<>>
         ELSE <<d.value>> \o ReadIndexes(data, offset + d.consumed, count - 1))

RemovedIndexes(message) ==
  With(decodePrefixVarIntU64(message.data[1], 0), LAMBDA d :
    ReadIndexes(message.data[1], d.consumed, message.removeCount[1]))

\* The list left by removing the given indexes one after the other, each by
\* moving the last element into the removed position.
RECURSIVE SwapAndPopAll(_, _)
SwapAndPopAll(list, indexes) ==
  IF indexes = <<>>
  THEN list
  ELSE LET at == Head(indexes) + 1
           moved == [list EXCEPT ![at] = list[Len(list)]]
       IN SwapAndPopAll(SubSeq(moved, 1, Len(list) - 1), Tail(indexes))

\* C8: RegisterNetworks with r removals and a additions adds a to networkCount
\* and a - r to activeNetworkCount; each added network is keyed by its chainID
\* with addedAt and lastUpdatedAt set to the message id and removedAt null, and
\* is appended to the tail of the active list in payload order; the bytes
\* returned are the bytes of the message. Adding "eth" and "gno" to the
\* initial state gives counts 2 and 2 and the list head -> eth -> gno.
C8_RegisterNetworks ==
  (last.tag = 3 /\ ~last.err) =>
    LET message == last.storeAfter.Message[last.id]
        r == message.removeCount[1]
        a == message.addCount[1]
        networks == last.storeAfter.Network
        added == {id \in DOMAIN networks : networks[id].addedAt = Some(last.id)}
        listBefore == getActiveNetworks(last.stateBefore, last.storeBefore.Network).networks
        listAfter == getActiveNetworks(last.stateAfter, networks).networks
    IN /\ last.stateAfter.networkCount = last.stateBefore.networkCount + a
       /\ last.stateAfter.activeNetworkCount
            = last.stateBefore.activeNetworkCount - r + a
       /\ last.bytesRead = Len(message.data[1])
       /\ \A id \in added :
            /\ networks[id].chainID = Some(id)
            /\ networks[id].lastUpdatedAt = Some(last.id)
            /\ networks[id].removedAt = None
       /\ r = 0 =>
            /\ Len(listAfter) = Len(listBefore) + a
            /\ SubSeq(listAfter, 1, Len(listBefore)) = listBefore
            /\ {listAfter[k] : k \in (Len(listBefore) + 1)..Len(listAfter)} = added
       /\ (last.stateBefore = NewGlobalState("1") /\ last.data = SliceFrom(PayloadRegister, 8)) =>
            /\ last.stateAfter.networkCount = 2
            /\ last.stateAfter.activeNetworkCount = 2
            /\ last.bytesRead = 10
            /\ listAfter = <<Eth, Gno>>

\* C9: RegisterNetworks removes the network at each given index by
\* swap-and-pop: the last element of the list takes the removed position and
\* its arrayIndex, the list shrinks by one, and the removed network gets
\* removedAt = message id with state, nextArrayElement and arrayIndex null.
\* Removing index 0 from head -> eth -> gno leaves head -> gno with one
\* active network.
C9_RemoveBySwapAndPop ==
  (last.tag = 3 /\ ~last.err /\ last.storeAfter.Message[last.id].removeCount[1] > 0
     /\ last.storeAfter.Message[last.id].addCount[1] = 0
     /\ \A k \in 1..Len(RemovedIndexes(last.storeAfter.Message[last.id])) :
          RemovedIndexes(last.storeAfter.Message[last.id])[k]
            < last.stateBefore.activeNetworkCount - (k - 1)) =>
    LET message == last.storeAfter.Message[last.id]
        indexes == RemovedIndexes(message)
        networks == last.storeAfter.Network
        listBefore == getActiveNetworks(last.stateBefore, last.storeBefore.Network)
        listAfter == getActiveNetworks(last.stateAfter, networks)
        removed == {id \in DOMAIN networks : networks[id].removedAt = Some(last.id)}
    IN /\ Len(indexes) = message.removeCount[1]
       /\ last.stateAfter.activeNetworkCount
            = last.stateBefore.activeNetworkCount - Len(indexes)
       /\ Cardinality(removed) = Len(indexes)
       /\ \A id \in removed :
            /\ networks[id].state = None
            /\ networks[id].nextArrayElement = None
            /\ networks[id].arrayIndex = None
       /\ listBefore.ok /\ listAfter.ok
       /\ Len(listBefore.networks) = last.stateBefore.activeNetworkCount
       /\ listAfter.networks = SwapAndPopAll(listBefore.networks, indexes)
       /\ \A k \in 1..Len(listAfter.networks) :
            networks[listAfter.networks[k]].arrayIndex = Some(k - 1)

\* C10: UpdateVersions decodes one varint newVersion, sets
\* GlobalState.encodingVersion to it and returns the bytes it consumed; it
\* fails when the varint cannot be decoded or when newVersion is not greater
\* than the old encodingVersion.
C10_UpdateVersions ==
  last.tag = 2 =>
    LET decoded == IF last.data = <<>>
                   THEN [trap |-> FALSE, value |-> 0, consumed |-> 0]
                   ELSE decodePrefixVarIntU64(last.data, 0)
        old == last.stateBefore.encodingVersion
    IN IF decoded.consumed = 0 \/ decoded.value <= old
       THEN /\ last.err
            /\ last.stateAfter.encodingVersion = old
       ELSE /\ ~last.err
            /\ last.bytesRead = decoded.consumed
            /\ last.stateAfter.encodingVersion = decoded.value

\* The tags executeMessage has a branch for.
KnownTags == 0..3

\* C11: an unknown tag ends its message block: no later slot of that preamble
\* is executed, the unknown tag reads no byte and changes nothing, and the
\* call goes on without aborting.
C11_UnknownTagEndsBlock ==
  /\ pc = "inner" => \A k \in 1..(i - 1) : tags[k] \in KnownTags
  /\ (last.tag # -1 /\ last.tag \notin KnownTags) =>
       /\ last.bytesRead = 0
       /\ last.stateAfter = last.stateBefore
       /\ last.storeAfter = last.storeBefore
       /\ pc # "aborted"

\* The number of messages each block of a payload encodes, block by block;
\* empty for a payload that is not a sequence of whole message blocks.
EncodedMessages(payload) ==
  CASE payload = PayloadRegister -> <<1>>
    [] payload = PayloadSetBlockNumbers(5, -3) -> <<1>>
    [] payload = PayloadSetBlockNumbers(2, 4) -> <<1>>
    [] payload = PayloadRemove -> <<1>>
    [] payload = PayloadUpdateVersions -> <<8>>
    [] payload = PayloadTwoBlocks -> <<1, 1>>
    [] OTHER -> <<>>

\* C12: the zero slots after the last encoded message of a block read no
\* byte, leave latestValidEpoch alone and write no NetworkEpochBlockNumber,
\* whatever activeNetworkCount is and whatever follows in the payload; so a
\* call decodes its payload into exactly the blocks it was built from.
C12_PaddingSlotsAreEmpty ==
  LET blocks == EncodedMessages(store.Payload[tx].data)
  IN (tx > 0 /\ pc # "aborted" /\ blocks # <<>>
        /\ snapshot.GlobalState # <<>>
        /\ snapshot.GlobalState["1"].activeNetworkCount >= 0) =>
       /\ last.tag # -1 =>
            LET block == ParseDec(last.id[1][2])
                slot == ParseDec(last.id[2])
            IN (block < Len(blocks) /\ slot >= blocks[block + 1]) =>
                 /\ last.bytesRead = 0
                 /\ last.stateAfter.latestValidEpoch
                      = last.stateBefore.latestValidEpoch
                 /\ last.storeAfter.NetworkEpochBlockNumber
                      = last.storeBefore.NetworkEpochBlockNumber
       /\ messageBlockCounter <= Len(blocks)
       /\ (pc = "idle" /\ committed) => messageBlockCounter = Len(blocks)

\* The attributes of a GlobalState other than its id.
Attributes(state) ==
  [networkCount |-> state.networkCount,
   activeNetworkCount |-> state.activeNetworkCount,
   networkArrayHead |-> state.networkArrayHead,
   latestValidEpoch |-> state.latestValidEpoch,
   encodingVersion |-> state.encodingVersion,
   permissionList |-> state.permissionList]

\* C13: after every successful call the canonical GlobalState equals the
\* auxiliary one on networkCount, activeNetworkCount, networkArrayHead,
\* latestValidEpoch, encodingVersion and permissionList.
C13_CommitCopiesEveryAttribute ==
  (pc = "idle" /\ tx > 0 /\ committed /\ ~err) =>
    /\ Has(store.GlobalState, "0")
    /\ Has(store.GlobalState, "1")
    /\ Attributes(store.GlobalState["0"]) = Attributes(store.GlobalState["1"])
    /\ Attributes(store.GlobalState["0"]) = Attributes(globalState)

\* A successful call has committed two networks and the second epoch.
C13_CommittedSecondEpoch ==
  /\ pc = "idle"
  /\ committed
  /\ ~err
  /\ globalState.networkCount = 2
  /\ globalState.activeNetworkCount = 2
  /\ globalState.latestValidEpoch = Some(DecStr(2))
  /\ store.GlobalState["0"].latestValidEpoch = Some(DecStr(2))

\* Some remove of the message names an index that is not below the number of
\* networks active when its turn comes.
RemoveOutOfRange(message, activeNetworkCount) ==
  \/ message.removeCount[1] > activeNetworkCount
  \/ \E k \in 1..Len(RemovedIndexes(message)) :
       RemovedIndexes(message)[k] >= activeNetworkCount - (k - 1)

\* C18: a RegisterNetworks message with a remove index that is not below the
\* number of active networks aborts the call: the message removes nothing
\* and does not lower activeNetworkCount, nothing is committed, the state is
\* rolled back and errorMessage is recorded.
C18_RemoveOutOfRangeAborts ==
  (last.tag = 3 /\ last.storeAfter.Message[last.id].removeCount[1] > 0
     /\ RemoveOutOfRange(last.storeAfter.Message[last.id],
                         last.stateBefore.activeNetworkCount)) =>
    /\ last.stateAfter.activeNetworkCount >= last.stateBefore.activeNetworkCount
    /\ \A id \in DOMAIN last.storeAfter.Network :
         last.storeAfter.Network[id].removedAt # Some(last.id)
    /\ ~committed
    /\ Finished =>
         /\ Canonical(store) = Canonical(snapshot)
         /\ Has(store.Payload, tx)
         /\ store.Payload[tx].errorMessage # None

\* C19: when the first message of a call is executed, the auxiliary
\* GlobalState equals the canonical one on networkCount, activeNetworkCount,
\* latestValidEpoch, encodingVersion and permissionList, however the earlier
\* calls ended.
C19_AuxiliarySeededFromCanonical ==
  (last.tag # -1 /\ last.id = <<<<tx, DecStr(0)>>, DecStr(0)>>) =>
    LET aux == last.stateBefore
        canonical == Canonical(last.storeBefore)
    IN /\ aux.networkCount = canonical.networkCount
       /\ aux.activeNetworkCount = canonical.activeNetworkCount
       /\ aux.latestValidEpoch = canonical.latestValidEpoch
       /\ aux.encodingVersion = canonical.encodingVersion
       /\ aux.permissionList = canonical.permissionList
       /\ Has(last.storeBefore.GlobalState, "1")
       /\ Attributes(last.storeBefore.GlobalState["1"]) = Attributes(aux)

\* The first message of a call runs on the network that the call before it,
\* which ended with a decoder error, had added.
C19_CallAfterDecoderError ==
  /\ tx = 2
  /\ pc = "inner"
  /\ last.tag # -1
  /\ last.id = <<<<tx, DecStr(0)>>, DecStr(0)>>
  /\ last.stateBefore.networkCount = 1
  /\ last.stateBefore.activeNetworkCount = 1
  /\ store.Payload[1].data = PayloadTruncatedVarint

\* The data of the blocks 0..(count - 1) of a call, one after the other.
RECURSIVE BlocksData(_, _, _)
BlocksData(table, call, count) ==
  IF count = 0
  THEN <<>>
  ELSE BlocksData(table, call, count - 1)
         \o table[<<call, DecStr(count - 1)>>].data

\* C20: the MessageBlocks of a call have the ids "{tx}-0", "{tx}-1", ... and
\* each holds the bytes its block consumed, preamble included: together the
\* blocks saved so far are the payload up to the cursor, and after a
\* successful call they are the payload.
C20_MessageBlockHoldsConsumedSlice ==
  (tx > 0 /\ pc \in {"outer", "inner", "idle"}) =>
    LET payload == store.Payload[tx].data
        saved == {id \in DOMAIN store.MessageBlock : id[1] = tx}
    IN /\ saved = {<<tx, DecStr(k)>> : k \in 0..(messageBlockCounter - 1)}
       /\ pc \in {"outer", "idle"} =>
            BlocksData(store.MessageBlock, tx, messageBlockCounter)
              = SubSeq(payload, 1, Len(payload) - Len(rawPayloadData))
       /\ (pc = "idle" /\ committed /\ ~err) =>
            BlocksData(store.MessageBlock, tx, messageBlockCounter) = payload

(***************************************************************************)
(* Properties of the codec, over CodecSpec.                                *)
(***************************************************************************)
\* The input holds the whole prefix varint of w at its offset.
HoldsVarint(w) ==
  /\ input.kind = "bytes"
  /\ Slice(input.bytes, input.offset, input.offset + EncodedLength(w))
       = EncodeVarInt(w)

\* An i64 below 2^31 in size, as a number.
Signed(w) ==
  IF w[WORD_BITS] = 1 THEN -(WordValue(Not(w)) + 1) ELSE WordValue(w)

\* C14: decodePrefixVarIntU64 applied to the prefix varint of a value v placed
\* at any offset returns v and consumed = L, the length of the encoding, which
\* is min(ctz(first byte), 8) + 1 and lies in 1..9; the number computed by the
\* decoder on integers is the same value.
C14_VarintRoundTrip ==
  output.op = "decodePrefixVarIntU64" =>
    \A w \in VarintWords :
      HoldsVarint(w) =>
        /\ ~output.trap
        /\ output.word = w
        /\ output.consumed = EncodedLength(w)
        /\ output.consumed = Min(ctz(input.bytes[input.offset + 1]), 8) + 1
        /\ output.consumed \in 1..9
        /\ output.value # None => output.value = Some(WordValue(w))

\* A nine-byte varint that follows other bytes has been decoded.
C14_DecodedNineBytesAtOffset ==
  /\ output.op = "decodePrefixVarIntU64"
  /\ input.offset > 0
  /\ HoldsVarint(ClassMax(9))
  /\ output.consumed = 9

\* C15: whenever the offset is at or past the end of the bytes, or the length
\* announced by the byte at the offset reaches past the end, both decoders
\* return (0, 0) without reading out of range, and consumed = 0 is returned in
\* no other case.
C15_TruncatedVarintReturnsZero ==
  output.op \in {"decodePrefixVarIntU64", "decodePrefixVarIntI64"} =>
    LET truncated ==
          \/ input.offset >= Len(input.bytes)
          \/ input.offset + Min(ctz(input.bytes[input.offset + 1]), 8) + 1
               > Len(input.bytes)
    IN IF truncated
       THEN ~output.trap /\ output.word = Zero64 /\ output.consumed = 0
       ELSE ~output.trap /\ output.consumed # 0

\* C16: zigZagDecode(u) is (u >> 1) XOR -(u AND 1) in two's complement, that
\* is u / 2 for an even u and -(u + 1) / 2 for an odd one; it returns i for the
\* ZigZag encoding of every signed i; and decodePrefixVarIntI64 returns
\* zigZagDecode of the unsigned varint with the same consumed count.
C16_ZigZag ==
  /\ output.op = "zigZagDecode" =>
       /\ output.word
            = Xor(Shr(input.word, 1),
                  IF input.word[1] = 1 THEN Not(Zero64) ELSE Zero64)
       /\ \A signed \in SignedWords :
            ZigZagEncode(signed) = input.word => output.word = signed
       /\ output.value # None =>
            /\ output.value = Some(Signed(output.word))
            /\ \E u \in {WordValue(input.word)} :
                 output.value
                   = Some(IF u % 2 = 0 THEN u \div 2 ELSE -((u + 1) \div 2))
  /\ output.op = "decodePrefixVarIntI64" =>
       /\ \A signed \in SignedWords :
            HoldsVarint(ZigZagEncode(signed)) =>
              /\ ~output.trap
              /\ output.word = signed
              /\ output.consumed = EncodedLength(ZigZagEncode(signed))
              /\ output.value # None => output.value = Some(Signed(signed))
       /\ \E unsigned \in {decodePrefixVarIntU64Bits(input.bytes,
                                                     input.offset)} :
            /\ output.consumed = unsigned.consumed
            /\ unsigned.consumed # 0 =>
                 output.word
                   = Xor(Shr(unsigned.word, 1),
                         IF unsigned.word[1] = 1 THEN Not(Zero64) ELSE Zero64)

\* The smallest i64 has been decoded from its nine-byte signed varint.
C16_DecodedSmallestSigned ==
  /\ output.op = "decodePrefixVarIntI64"
  /\ HoldsVarint(ZigZagEncode(Word({WORD_BITS})))
  /\ output.word = Word({WORD_BITS})
  /\ output.consumed = 9

\* C17: getTags returns 16 tags for a 64-bit preamble, and tag i is bits
\* 4i .. 4i + 3 of the preamble read as a little-endian unsigned 64-bit word,
\* so that tags 8..15 come from its upper four bytes.
C17_TagsOfWholePreamble ==
  output.op = "getTags" =>
    /\ ~output.trap
    /\ Len(output.tags) = PREAMBLE_BIT_LENGTH \div TAG_BIT_LENGTH
    /\ \A index \in 0..(PREAMBLE_BIT_LENGTH \div TAG_BIT_LENGTH - 1) :
         \E byte \in {input.bytes[index \div 2 + 1]} :
           output.tags[index + 1]
             = IF index % 2 = 0 THEN byte % 16 ELSE byte \div 16

(***************************************************************************)
(* Properties of the recorded messages, the counters and the driver loop.  *)
(***************************************************************************)
\* The entity type of the message that a tag stands for.
MessageVariant(tag) ==
  CASE tag = 0 -> "SetBlockNumbersForEpochMessage"
    [] tag = 1 -> "CorrectEpochsMessage"
    [] tag = 2 -> "UpdateVersionsMessage"
    [] tag = 3 -> "RegisterNetworksMessage"

\* C21: every tag slot that is executed without error records exactly one
\* Message with id "{blockId}-{msgIndex}" of the variant of its tag, the
\* CorrectEpochs message that reads nothing and the empty
\* SetBlockNumbersForEpoch included, and records no other Message.
C21_ExecutedSlotRecordsMessage ==
  (last.tag \in KnownTags /\ ~last.err) =>
    /\ last.id \notin DOMAIN last.storeBefore.Message
    /\ DOMAIN last.storeAfter.Message
         = DOMAIN last.storeBefore.Message \cup {last.id}
    /\ last.storeAfter.Message[last.id].kind = Some(MessageVariant(last.tag))
    /\ last.storeAfter.Message[last.id].id = last.id

\* The GlobalState entities a store holds, and the one the handler works on.
GlobalStates ==
  {store.GlobalState[id] : id \in DOMAIN store.GlobalState} \cup {globalState}

\* C22: in the auxiliary and in the canonical GlobalState
\* 0 <= activeNetworkCount <= networkCount always, and networkCount never
\* decreases, whatever the RegisterNetworks messages remove and add.
C22_CountersInRange ==
  /\ \A state \in GlobalStates :
       /\ 0 <= state.activeNetworkCount
       /\ state.activeNetworkCount <= state.networkCount
  /\ last.tag # -1 =>
       last.stateAfter.networkCount >= last.stateBefore.networkCount
  /\ Canonical(store).networkCount >= Canonical(snapshot).networkCount

\* The ids that the chain of nextArrayElement visits from an id on.
RECURSIVE ListChain(_, _, _)
ListChain(nextId, networks, fuel) ==
  IF nextId = None \/ fuel = 0 \/ ~Has(networks, nextId[1])
  THEN <<>>
  ELSE <<nextId[1]>>
         \o ListChain(networks[nextId[1]].nextArrayElement, networks, fuel - 1)

\* C23: after commitNetworkChanges(removed, retained, state), for a retained
\* list of distinct networks and a removed list disjoint from it,
\* getActiveNetworks returns with the retained networks in their order, the
\* chain from networkArrayHead ends in null after retained.length nodes, and
\* no removed network is on it.
C23_CommittedListRoundTrip ==
  registration.pc = "committed" =>
    \E active \in {getActiveNetworks(cache.state, cache.networks)} :
      \E chain \in {ListChain(cache.state.networkArrayHead, cache.networks,
                              Cardinality(DOMAIN cache.networks) + 1)} :
        /\ active.ok
        /\ active.networks = newNetworksList
        /\ chain = newNetworksList
        /\ chain = <<>>
             \/ cache.networks[chain[Len(chain)]].nextArrayElement = None
        /\ \A k \in 1..Len(removedNetworks) :
             \A j \in 1..Len(chain) : chain[j] # removedNetworks[k]

\* A later registration removed the head of a list and committed two
\* networks.
C23_CommittedAfterRemovingHead ==
  /\ registration.pc = "committed"
  /\ registration.number > 1
  /\ Len(removedNetworks) > 0
  /\ Len(newNetworksList) = 2
  /\ cache.networks[removedNetworks[1]].addedAt # Some(registration.number)
  /\ cache.networks[newNetworksList[1]].addedAt # Some(registration.number)

\* One step of the loops of a running call.
DriverLoopStep ==
  pc \in {"outer", "inner"} =>
     /\ Len(rawPayloadData') <= Len(rawPayloadData)
     /\ (pc = "outer" /\ pc' = "inner") =>
          /\ Len(rawPayloadData) > 0
          /\ Len(rawPayloadData')
               = Len(rawPayloadData)
                   - Min(PREAMBLE_BIT_LENGTH \div 8, Len(rawPayloadData))
          /\ i' = 0
     /\ (pc = "inner" /\ pc' = "inner") =>
          /\ i < PREAMBLE_BIT_LENGTH \div TAG_BIT_LENGTH
          /\ Len(rawPayloadData) # 0
          /\ i' = i + 1
          /\ last'.tag = tags[i + 1]
          /\ last'.id = <<messageBlockID, DecStr(i)>>
          /\ Len(rawPayloadData') = Len(rawPayloadData) - last'.bytesRead
     /\ (pc = "inner" /\ pc' = "outer") =>
          /\ i = PREAMBLE_BIT_LENGTH \div TAG_BIT_LENGTH
               \/ Len(rawPayloadData) = 0
          /\ messageBlockCounter' = messageBlockCounter + 1

\* C24: while a call runs, the remaining payload never grows; every pass of
\* the outer loop shortens it by the preamble bytes it reads; the inner loop
\* takes the slots in preamble order from 0, at most 16 of them and none once
\* nothing remains, and each pass shortens the payload by exactly the byte
\* count its executor returns.  The length is thus a variant of the loops.
C24_DriverLoopProgress == [][DriverLoopStep]_vars

=============================================================================
